---- MODULE Spec2Model ----
(***************************************************************************)
(* Model of the data-quality tools of src/src/tools/data_tools.py:         *)
(* ProfilerTool, ValidatorTool and AnomalyDetectorTool, each applied to a  *)
(* data file and (for the validator) a CDE configuration document; of      *)
(* DataLoaderTool and CDELoaderTool and of all five tools called by path;  *)
(* and of the sequential run of DataQualityCrew (src/src/crew.py).         *)
(*                                                                         *)
(* A data file is the table pandas loads from it: column names in file     *)
(* order and, per column, one cell per row.  Ratios the code rounds to 4   *)
(* decimals are kept as integers counting ten-thousandths.                 *)
(***************************************************************************)
EXTENDS Integers, Sequences, FiniteSets, TLC

VARIABLES
    file,       \* the table stored in the data file (file_path)
    cdeConfig,  \* the CDE configuration document (cde_config_path)
    cdeFields,  \* ProfilerTool's cde_fields argument, as its comma-separated items
    today,      \* the wall clock's current date, as a day number
    valOut,     \* what ValidatorTool._run returned last
    profOut,    \* what ProfilerTool._run returned last
    anomOut,    \* what AnomalyDetectorTool._run returned last
    seen,       \* every <<tool, returned value>> of this file and config so far
    path,       \* the data file path of the last call and what is stored there
    configDoc,  \* the CDE configuration path of the last call and what is stored there
    loadOut,    \* what DataLoaderTool._run returned last
    cdeOut,     \* what CDELoaderTool._run returned last
    crew        \* DataQualityCrew: its tasks, and the events of its run so far

vars == <<file, cdeConfig, cdeFields, today, valOut, profOut, anomOut, seen,
          path, configDoc, loadOut, cdeOut, crew>>

\* The variables of the calls that are given paths, and of the crew.
pathVars == <<path, configDoc, loadOut, cdeOut, crew>>

(***************************************************************************)
(* Bounds of the model.                                                    *)
(***************************************************************************)
MaxRows == 4        \* rows of a one-column file
MaxCols == 2        \* columns of a file
MaxCells == 4       \* rows * columns of a file
MaxCde == 2         \* entries of critical_data_elements
StartDay == 1       \* the day the clock shows first
MaxDay == 2         \* the clock advances at most MaxDay days
MaxRun == 10        \* length of the run of equal values in a long column
MaxEngineRows == 1  \* rows of the files of the repeated runs

(***************************************************************************)
(* Generic helpers.                                                        *)
(***************************************************************************)
Range(s) == {s[i] : i \in DOMAIN s}

RECURSIVE SumSeq(_)
SumSeq(s) == IF s = <<>> THEN 0 ELSE Head(s) + SumSeq(Tail(s))

Take(s, n) == IF Len(s) <= n THEN s ELSE SubSeq(s, 1, n)

IndexOf(s, x) == IF x \in Range(s) THEN CHOOSE i \in DOMAIN s : s[i] = x ELSE 0

Abs(x) == IF x < 0 THEN -x ELSE x

\* n / d rounded to the nearest integer, ties to even (d > 0): Python's round().
RoundDiv(n, d) ==
    LET q == n \div d
        r == n - q * d
    IN  IF 2 * r < d THEN q
        ELSE IF 2 * r > d THEN q + 1
        ELSE IF q % 2 = 0 THEN q ELSE q + 1

\* round(n / d, 4), in ten-thousandths.
Round4(n, d) == RoundDiv(10000 * n, d)

(***************************************************************************)
(* Cells.  A cell is missing (NaN), a number, or text; text that pandas    *)
(* parses as a calendar date carries the day it denotes.                   *)
(***************************************************************************)
Null == [k |-> "null", n |-> 0, s |-> <<>>]
Num(i) == [k |-> "num", n |-> i, s |-> <<>>]
Str(t) == [k |-> "str", n |-> 0, s |-> t]
DateText(d) == [k |-> "date", n |-> d, s |-> <<"d">>]

notna(c) == c.k # "null"
isna(c) == c.k = "null"

\* df[mask]: the positions where a boolean mask is true, in row order.
RECURSIVE RowsFrom(_, _)
RowsFrom(mask, i) ==
    IF i > Len(mask) THEN <<>>
    ELSE (IF mask[i] THEN <<i>> ELSE <<>>) \o RowsFrom(mask, i + 1)

RowsWhere(mask) == RowsFrom(mask, 1)

(***************************************************************************)
(* Text patterns of the validator (re.match, anchored at both ends).       *)
(***************************************************************************)
Lower == {"a","b","c","d","e","f","g","h","i","j","k","l","m",
          "n","o","p","q","r","s","t","u","v","w","x","y","z"}
Upper == {"A","B","C","D","E","F","G","H","I","J","K","L","M",
          "N","O","P","Q","R","S","T","U","V","W","X","Y","Z"}
Digit == {"0","1","2","3","4","5","6","7","8","9"}

EmailLocalChars == Lower \cup Upper \cup Digit \cup {"_", ".", "+", "-"}
EmailDomainChars == Lower \cup Upper \cup Digit \cup {"-"}
EmailTailChars == Lower \cup Upper \cup Digit \cup {"-", "."}

\* ^[a-zA-Z0-9_.+-]+@[a-zA-Z0-9-]+\.[a-zA-Z0-9-.]+$
EmailMatch(t) ==
    \E i \in 2..Len(t) : \E j \in (i + 2)..(Len(t) - 1) :
        /\ t[i] = "@"
        /\ t[j] = "."
        /\ \A k \in 1..(i - 1) : t[k] \in EmailLocalChars
        /\ \A k \in (i + 1)..(j - 1) : t[k] \in EmailDomainChars
        /\ \A k \in (j + 1)..Len(t) : t[k] \in EmailTailChars

\* ^\d{3}-\d{3}-\d{4}$
PhoneMatch(t) ==
    /\ Len(t) = 12
    /\ \A k \in 1..12 : IF k \in {4, 8} THEN t[k] = "-" ELSE t[k] \in Digit

(***************************************************************************)
(* The loaded table (a pandas DataFrame).                                  *)
(***************************************************************************)
HasColumn(df, name) == name \in Range(df.names)
Column(df, name) == df.cols[IndexOf(df.names, name)]
LenDf(df) == df.rows
NumColumns(df) == Len(df.names)

\* df[name] = col: a new column is appended, an existing one overwritten.
SetColumn(df, name, col) ==
    IF HasColumn(df, name)
    THEN [df EXCEPT !.cols[IndexOf(df.names, name)] = col]
    ELSE [df EXCEPT !.names = Append(@, name), !.cols = Append(@, col)]

\* A comparison with a number raises TypeError on a column that holds text.
HasText(col) == \E i \in DOMAIN col : col[i].k \notin {"null", "num"}

\* select_dtypes(include=['number']): numbers and missing values only (a
\* column of missing values only is float64; a column without rows is object).
IsNumericDtype(col) == col # <<>> /\ ~HasText(col)

\* pd.to_datetime(col, errors='coerce'): a timestamp, or NaT (missing).
ToDatetime(c) == IF c.k = "date" THEN [k |-> "ts", n |-> c.n, s |-> <<>>] ELSE Null

\* Series.dropna()
RECURSIVE DropNa(_)
DropNa(col) ==
    IF col = <<>> THEN <<>>
    ELSE (IF notna(Head(col)) THEN <<Head(col)>> ELSE <<>>) \o DropNa(Tail(col))

\* Series.duplicated().sum(): the values equal to an earlier value.
DuplicatedCount(col) ==
    Cardinality({i \in DOMAIN col : \E j \in 1..(i - 1) : col[j] = col[i]})

NullCount(col) == Cardinality({i \in DOMAIN col : isna(col[i])})

(***************************************************************************)
(* ValidatorTool._run                                                      *)
(***************************************************************************)
NoSample == <<>>

Issue(field, rule, severity, count, sample, keys) ==
    [field |-> field, rule |-> rule, severity |-> severity,
     invalid_count |-> count, sample_invalid |-> sample, keys |-> keys]

RuleKeys == {"field", "rule", "severity", "invalid_count", "sample_invalid", "message"}
CdeKeys == {"field", "rule", "severity", "invalid_count", "message"}

\* The cells of a column at the given rows, first three: .head(3)
Sample(col, rows) == Take([i \in DOMAIN rows |-> col[rows[i]]], 3)

\* Mutant: the issue is appended whatever the count.
EmitAlways(count, issue) == <<issue>>

\* if len(invalid) > 0: issues.append(...)
EmitIfAny(count, issue) == IF count > 0 THEN <<issue>> ELSE <<>>

\* Mutant: the entries are kept as a list, a field listed again is there twice.
CdeRulesAsList(entries) == entries

\* Mutant: a field listed again keeps its first entry.
RECURSIVE CdeRulesFirstWins(_)
CdeRulesFirstWins(entries) ==
    IF entries = <<>> THEN <<>>
    ELSE LET rest == CdeRulesFirstWins(SubSeq(entries, 1, Len(entries) - 1))
             e == entries[Len(entries)]
         IN  IF \E i \in DOMAIN rest : rest[i].field = e.field THEN rest
             ELSE Append(rest, e)

\* config -> cde_rules: a dict keyed by field, in insertion order; a field
\* listed again keeps its place and takes the later entry.
RECURSIVE CdeRules(_)
CdeRules(entries) ==
    IF entries = <<>> THEN <<>>
    ELSE LET rest == CdeRules(SubSeq(entries, 1, Len(entries) - 1))
             e == entries[Len(entries)]
             at == {i \in DOMAIN rest : rest[i].field = e.field}
         IN  IF at = {} THEN Append(rest, e)
             ELSE [i \in DOMAIN rest |-> IF i \in at THEN e ELSE rest[i]]

LoadCdeRules(cfg) == IF cfg.exists THEN CdeRules(cfg.entries) ELSE <<>>

\* Mutant: rows with a missing email are taken for invalid ones.
EmailInvalidRowsWithMissing(df) ==
    LET col == Column(df, "email")
    IN  RowsWhere([i \in DOMAIN col |-> ~EmailMatch(col[i].s)])

EmailInvalidRows(df) ==
    LET col == Column(df, "email")
    IN  RowsWhere([i \in DOMAIN col |-> notna(col[i]) /\ ~EmailMatch(col[i].s)])

EmailIssues(df) ==
    IF ~HasColumn(df, "email") THEN <<>>
    ELSE LET bad == EmailInvalidRows(df)
         IN  EmitIfAny(Len(bad),
                 Issue("email", "format_validation", "HIGH", Len(bad),
                       Sample(Column(df, "email"), bad), RuleKeys))

PhoneInvalidRows(df) ==
    LET col == Column(df, "phone")
    IN  RowsWhere([i \in DOMAIN col |-> notna(col[i]) /\ ~PhoneMatch(col[i].s)])

PhoneIssues(df) ==
    IF ~HasColumn(df, "phone") THEN <<>>
    ELSE LET bad == PhoneInvalidRows(df)
         IN  EmitIfAny(Len(bad),
                 Issue("phone", "format_validation", "MEDIUM", Len(bad),
                       Sample(Column(df, "phone"), bad), RuleKeys))

\* df['dob_parsed'] = pd.to_datetime(df['date_of_birth'], errors='coerce')
WithDobParsed(df) ==
    IF ~HasColumn(df, "date_of_birth") THEN df
    ELSE LET dob == Column(df, "date_of_birth")
         IN  SetColumn(df, "dob_parsed", [i \in DOMAIN dob |-> ToDatetime(dob[i])])

\* Mutant: a date of birth on the current date is taken for a future one.
FutureDobRowsInclusive(df, now) ==
    LET col == Column(WithDobParsed(df), "dob_parsed")
    IN  RowsWhere([i \in DOMAIN col |-> notna(col[i]) /\ col[i].n >= now])

\* df[df['dob_parsed'].dt.date > today]: NaT compares False.
FutureDobRows(df, now) ==
    LET col == Column(WithDobParsed(df), "dob_parsed")
    IN  RowsWhere([i \in DOMAIN col |-> notna(col[i]) /\ col[i].n > now])

DobIssues(df, now) ==
    IF ~HasColumn(df, "date_of_birth") THEN <<>>
    ELSE LET bad == FutureDobRows(df, now)
         IN  EmitIfAny(Len(bad),
                 Issue("date_of_birth", "future_date", "CRITICAL", Len(bad),
                       Sample(Column(df, "date_of_birth"), bad), RuleKeys))

NegativeBalanceRows(df) ==
    LET col == Column(df, "account_balance")
    IN  RowsWhere([i \in DOMAIN col |-> notna(col[i]) /\ col[i].n < 0])

BalanceIssues(df) ==
    IF ~HasColumn(df, "account_balance") THEN <<>>
    ELSE LET bad == NegativeBalanceRows(df)
         IN  EmitIfAny(Len(bad),
                 Issue("account_balance", "negative_value", "HIGH", Len(bad),
                       Sample(Column(df, "account_balance"), bad), RuleKeys))

InvalidScoreRows(df) ==
    LET col == Column(df, "credit_score")
    IN  RowsWhere([i \in DOMAIN col |-> notna(col[i]) /\ (col[i].n < 300 \/ col[i].n > 850)])

ScoreIssues(df) ==
    IF ~HasColumn(df, "credit_score") THEN <<>>
    ELSE LET bad == InvalidScoreRows(df)
         IN  EmitIfAny(Len(bad),
                 Issue("credit_score", "range_validation", "HIGH", Len(bad),
                       Sample(Column(df, "credit_score"), bad), RuleKeys))

\* for field, rules in cde_rules.items(): ... rules.get("nullable") == False
RECURSIVE NotNullableIssues(_, _)
NotNullableIssues(df, rules) ==
    IF rules = <<>> THEN <<>>
    ELSE LET r == Head(rules)
             here == IF HasColumn(df, r.field) /\ r.nullable = FALSE
                     THEN LET n == NullCount(Column(df, r.field))
                          IN  EmitIfAny(n, Issue(r.field, "cde_not_nullable",
                                                 "CRITICAL", n, NoSample, CdeKeys))
                     ELSE <<>>
         IN  here \o NotNullableIssues(df, Tail(rules))

\* for field, rules in cde_rules.items(): ... rules.get("unique") == True
RECURSIVE UniquenessIssues(_, _)
UniquenessIssues(df, rules) ==
    IF rules = <<>> THEN <<>>
    ELSE LET r == Head(rules)
             here == IF HasColumn(df, r.field) /\ r.unique = TRUE
                     THEN LET n == DuplicatedCount(DropNa(Column(df, r.field)))
                          IN  EmitIfAny(n, Issue(r.field, "cde_uniqueness",
                                                 "CRITICAL", n, NoSample, CdeKeys))
                     ELSE <<>>
         IN  here \o UniquenessIssues(df, Tail(rules))

\* Mutant: one loop over the fields, both checks per field.
RECURSIVE CdeIssuesPerField(_, _)
CdeIssuesPerField(df, rules) ==
    IF rules = <<>> THEN <<>>
    ELSE NotNullableIssues(df, <<Head(rules)>>) \o UniquenessIssues(df, <<Head(rules)>>)
            \o CdeIssuesPerField(df, Tail(rules))

\* The two loops over cde_rules.items(), one after the other.
CdeIssues(df, rules) == NotNullableIssues(df, rules) \o UniquenessIssues(df, rules)

\* The issues list, in the order the rules append to it.
ValidatorIssues(df, rules, now) ==
    EmailIssues(df) \o PhoneIssues(df) \o DobIssues(df, now)
        \o BalanceIssues(df) \o ScoreIssues(df)
        \o CdeIssues(WithDobParsed(df), rules)

\* The .str accessor of a column that is not text raises AttributeError (a
\* column of missing values only is float64).
StrAccessorRaises(df, name) == HasColumn(df, name) /\ IsNumericDtype(Column(df, name))

\* A comparison of a text column with a number raises TypeError.
ValidatorRaises(df) ==
    \/ StrAccessorRaises(df, "email")
    \/ StrAccessorRaises(df, "phone")
    \/ HasColumn(df, "account_balance") /\ HasText(Column(df, "account_balance"))
    \/ HasColumn(df, "credit_score") /\ HasText(Column(df, "credit_score"))

CountSeverity(issues, sev) == Cardinality({i \in DOMAIN issues : issues[i].severity = sev})

InvalidTotal(issues) == SumSeq([i \in DOMAIN issues |-> issues[i].invalid_count])

\* len(df) * len(df.columns), on the table as the rules left it
ScoreCells(df) == LenDf(WithDobParsed(df)) * NumColumns(WithDobParsed(df))

\* round(1 - sum / cells, 4)
ValidityScore(issues, cells) == Round4(cells - InvalidTotal(issues), cells)

NoOutput ==
    [kind |-> "none", total_records |-> 0, total_issues |-> 0, critical_issues |-> 0,
     high_issues |-> 0, medium_issues |-> 0, validity_score |-> 0, issues |-> <<>>,
     message |-> <<>>]

\* return f"Error validating data: {str(e)}": the text, as its leading word
\* and the rest.
ValidatorError ==
    [NoOutput EXCEPT !.kind = "error", !.message = <<"Error", "validating data">>]

Validate(df, cfg, now) ==
    LET issues == ValidatorIssues(df, LoadCdeRules(cfg), now)
        cells == ScoreCells(df)
    IN  IF ValidatorRaises(df) \/ cells = 0 THEN ValidatorError
        ELSE [kind |-> "result",
              total_records |-> LenDf(df),
              total_issues |-> Len(issues),
              critical_issues |-> CountSeverity(issues, "CRITICAL"),
              high_issues |-> CountSeverity(issues, "HIGH"),
              medium_issues |-> CountSeverity(issues, "MEDIUM"),
              validity_score |-> ValidityScore(issues, cells),
              issues |-> issues]

(***************************************************************************)
(* ProfilerTool._run                                                       *)
(*                                                                         *)
(* A ratio is a number of ten-thousandths, NaN, or None (JSON null).  The  *)
(* type-specific statistics of a profile (min, max, mean, std, lengths,    *)
(* samples) are left out.                                                  *)
(***************************************************************************)
Ratio(v) == [t |-> "num", v |-> v]
NaN == [t |-> "nan", v |-> 0]
None == [t |-> "none", v |-> 0]

\* round(a / b, 4) on numpy integers: 0 / 0 is NaN, with a warning only.
NumpyRatio(a, b) == IF b = 0 THEN NaN ELSE Ratio(Round4(a, b))

\* Series.nunique(): the distinct non-missing values.
NUnique(col) == Cardinality(Range(DropNa(col)))

DataType(col) == IF IsNumericDtype(col) THEN "number" ELSE "object"

\* [f.strip() for f in cde_fields.split(',')] if cde_fields else []: the
\* argument is kept as its items between the commas, each a name with or
\* without blanks around it.
CdeList(fields) == [i \in DOMAIN fields |-> fields[i].name]

ColumnProfile(df, i, cdeList) ==
    LET col == df.cols[i]
        total == Len(col)
        nonNull == Len(DropNa(col))
        unique == NUnique(col)
    IN  [column |-> df.names[i],
         is_cde |-> df.names[i] \in Range(cdeList),
         data_type |-> DataType(col),
         total_rows |-> total,
         non_null_count |-> nonNull,
         null_count |-> NullCount(col),
         completeness |-> NumpyRatio(nonNull, total),
         unique_count |-> unique,
         uniqueness |-> IF nonNull > 0 THEN Ratio(Round4(unique, nonNull)) ELSE Ratio(0),
         duplicate_count |-> nonNull - unique]

ColumnProfiles(df, cdeList) ==
    [i \in DOMAIN df.names |-> ColumnProfile(df, i, cdeList)]

\* [p for p in profile if p["is_cde"]]
RECURSIVE CdeProfiles(_)
CdeProfiles(profile) ==
    IF profile = <<>> THEN <<>>
    ELSE (IF Head(profile).is_cde THEN <<Head(profile)>> ELSE <<>>)
            \o CdeProfiles(Tail(profile))

\* The mean of m ratios adding up to sum lies halfway between two
\* ten-thousandths: what the doubles give.  Among the sums of at most three
\* ratios of at most six rows, these three round up and the others down.
HalfwayRoundsUp(sum, m) == m = 2 /\ sum \in {6667, 11667, 16667}

\* round(sum(p["completeness"] for p in ps) / len(ps), 4), len(ps) > 0
MeanCompleteness(ps) ==
    LET m == Len(ps)
        sum == SumSeq([i \in DOMAIN ps |-> ps[i].completeness.v])
    IN  IF \E i \in DOMAIN ps : ps[i].completeness.t = "nan" THEN NaN
        ELSE IF (2 * sum) % m = 0 /\ sum % m # 0
             THEN Ratio((sum \div m) + (IF HalfwayRoundsUp(sum, m) THEN 1 ELSE 0))
             ELSE Ratio(RoundDiv(sum, m))

NoProfile ==
    [kind |-> "none", total_columns |-> 0, cde_columns |-> 0,
     overall_completeness |-> None, cde_completeness |-> None,
     columns_with_nulls |-> 0, columns_with_duplicates |-> 0,
     column_profiles |-> <<>>, message |-> <<>>]

\* return f"Error profiling data: {str(e)}"
ProfilerError ==
    [NoProfile EXCEPT !.kind = "error", !.message = <<"Error", "profiling data">>]

CdeCompleteness(cde) == IF cde # <<>> THEN MeanCompleteness(cde) ELSE None

\* An empty profile list makes the overall mean raise ZeroDivisionError.
Profile(df, fields) ==
    LET profile == ColumnProfiles(df, CdeList(fields))
        cde == CdeProfiles(profile)
    IN  IF Len(profile) = 0 THEN ProfilerError
        ELSE [kind |-> "result",
              total_columns |-> Len(profile),
              cde_columns |-> Len(cde),
              overall_completeness |-> MeanCompleteness(profile),
              cde_completeness |-> CdeCompleteness(cde),
              columns_with_nulls |->
                  Cardinality({k \in DOMAIN profile : profile[k].null_count > 0}),
              columns_with_duplicates |->
                  Cardinality({k \in DOMAIN profile : profile[k].duplicate_count > 0}),
              column_profiles |-> profile]

(***************************************************************************)
(* AnomalyDetectorTool._run                                                *)
(*                                                                         *)
(* The values are integers, so the quartiles are kept in quarters and the  *)
(* fences in eighths; the stats block of a report is left out.             *)
(***************************************************************************)
\* The numbers of a column without its missing values, ascending.
RECURSIVE SortedInsert(_, _)
SortedInsert(s, x) ==
    IF s = <<>> THEN <<x>>
    ELSE IF x <= Head(s) THEN <<x>> \o s
    ELSE <<Head(s)>> \o SortedInsert(Tail(s), x)

RECURSIVE Sorted(_)
Sorted(xs) == IF xs = <<>> THEN <<>> ELSE SortedInsert(Sorted(Tail(xs)), Head(xs))

Values(col) == LET d == DropNa(col) IN [i \in DOMAIN d |-> d[i].n]

\* stats.zscore(col_data): (x - mean) / std with the population std (ddof=0);
\* |z| > 3 iff (n x - S)^2 > 9 (n Q - S^2), S the sum and Q the sum of
\* squares; a zero std gives NaN, which is not > 3.
ZScoreOutliers(xs) ==
    LET n == Len(xs)
        S == SumSeq(xs)
        Q == SumSeq([i \in DOMAIN xs |-> xs[i] * xs[i]])
    IN  Cardinality({i \in DOMAIN xs :
            (n * xs[i] - S) * (n * xs[i] - S) > 9 * (n * Q - S * S)})

\* 4 * Series.quantile(k / 4), linear interpolation at position (n-1) k / 4.
Quantile4(xs, k) ==
    LET srt == Sorted(xs)
        pos == (Len(xs) - 1) * k
        lo == (pos \div 4) + 1
        frac == pos % 4
    IN  IF frac = 0 THEN 4 * srt[lo]
        ELSE srt[lo] * (4 - frac) + srt[lo + 1] * frac

\* Mutant: the values on a fence are outliers too.
IqrOutliersInclusive(xs) ==
    LET Q1 == Quantile4(xs, 1)
        Q3 == Quantile4(xs, 3)
        IQR == Q3 - Q1
    IN  Cardinality({i \in DOMAIN xs :
            \/ 8 * xs[i] <= 2 * Q1 - 3 * IQR
            \/ 8 * xs[i] >= 2 * Q3 + 3 * IQR})

\* (col < Q1 - 1.5 IQR) | (col > Q3 + 1.5 IQR)
IqrOutliers(xs) ==
    LET Q1 == Quantile4(xs, 1)
        Q3 == Quantile4(xs, 3)
        IQR == Q3 - Q1
    IN  Cardinality({i \in DOMAIN xs :
            \/ 8 * xs[i] < 2 * Q1 - 3 * IQR
            \/ 8 * xs[i] > 2 * Q3 + 3 * IQR})

\* if len(col_data) < 3: continue
TooFewValues(xs) == Len(xs) < 3

\* Mutant: a report needs outliers under both methods.
IsAnomalousBoth(z, iqr) == z > 0 /\ iqr > 0

\* if outliers_z > 0 or outliers_iqr > 0
IsAnomalous(z, iqr) == z > 0 \/ iqr > 0

RECURSIVE AnomalyReports(_, _)
AnomalyReports(df, i) ==
    IF i > Len(df.names) THEN <<>>
    ELSE LET xs == Values(df.cols[i])
             here ==
                 IF ~IsNumericDtype(df.cols[i]) \/ TooFewValues(xs) THEN <<>>
                 ELSE IF IsAnomalous(ZScoreOutliers(xs), IqrOutliers(xs))
                      THEN << [column |-> df.names[i],
                               outliers_zscore |-> ZScoreOutliers(xs),
                               outliers_iqr |-> IqrOutliers(xs)] >>
                      ELSE <<>>
         IN  here \o AnomalyReports(df, i + 1)

NumericColumns(df) == {i \in DOMAIN df.names : IsNumericDtype(df.cols[i])}

NoAnomalies ==
    [kind |-> "none", numeric_columns_analyzed |-> 0,
     columns_with_anomalies |-> 0, anomalies |-> <<>>, message |-> <<>>]

\* return f"Error detecting anomalies: {str(e)}"
AnomalyError ==
    [NoAnomalies EXCEPT !.kind = "error", !.message = <<"Error", "detecting anomalies">>]

DetectAnomalies(df) ==
    LET anomalies == AnomalyReports(df, 1)
    IN  [kind |-> "result",
         numeric_columns_analyzed |-> Cardinality(NumericColumns(df)),
         columns_with_anomalies |-> Len(anomalies),
         anomalies |-> anomalies]

(***************************************************************************)
(* Inputs: the data files and CDE documents the tools are run on.          *)
(***************************************************************************)
GoodEmail == <<"a", "@", "b", ".", "c">>
NotAnEmail == <<"n", "o", "t", "-", "a", "n", "-", "e", "m", "a", "i", "l">>
GoodPhone == <<"5", "5", "5", "-", "1", "2", "3", "-", "4", "5", "6", "7">>
BadPhone == <<"5", "5", "5", "1", "2", "3", "4", "5", "6", "7">>
BadDate == <<"n", "/", "a">>

BadEmail == <<"a", "@", "b">>

Schema == <<"email", "phone", "date_of_birth", "account_balance", "credit_score", "account_id">>

\* The cells a column of the given name may hold.
Dom(name) ==
    CASE name = "email" -> {Null, Str(GoodEmail), Str(NotAnEmail), Str(BadEmail)}
      [] name = "phone" -> {Null, Str(GoodPhone), Str(BadPhone)}
      [] name = "date_of_birth" ->
            {Null, Str(BadDate), DateText(StartDay), DateText(StartDay + 1)}
      [] name = "account_balance" -> {Null, Num(-1), Num(0)}
      [] name = "credit_score" -> {Num(299), Num(300), Num(850), Num(851)}
      [] OTHER -> {Null, Num(1), Num(2)}

\* The subsequences of a sequence of names with at most n names.
RECURSIVE SubSeqs(_, _)
SubSeqs(names, n) ==
    IF names = <<>> \/ n = 0 THEN {<<>>}
    ELSE SubSeqs(Tail(names), n) \cup
         {<<Head(names)>> \o rest : rest \in SubSeqs(Tail(names), n - 1)}

\* Every way to fill the named columns with r rows.
RECURSIVE ColumnSeqs(_, _)
ColumnSeqs(names, r) ==
    IF names = <<>> THEN {<<>>}
    ELSE {<<c>> \o rest : c \in [1..r -> Dom(Head(names))],
                          rest \in ColumnSeqs(Tail(names), r)}

FilesOf(names, r) ==
    {[names |-> names, rows |-> r, cols |-> cs] : cs \in ColumnSeqs(names, r)}

\* A table without columns has no rows; r rows of c columns fit MaxCells.
Shapes(schema) ==
    {<<ns, r>> \in SubSeqs(schema, MaxCols) \X (0..MaxRows) :
        /\ r * Len(ns) <= MaxCells
        /\ ns = <<>> => r = 0}

FilesOver(schema) == UNION {FilesOf(sh[1], sh[2]) : sh \in Shapes(schema)}

\* Files with columns of the whole schema, and files of the columns that
\* the CDE documents below name.
Files == FilesOver(Schema)

CdeSchema == <<"email", "account_id">>
CdeFiles == FilesOver(CdeSchema)

CdeEntries == [field : Range(CdeSchema), nullable : BOOLEAN, unique : BOOLEAN]

NoConfig == [exists |-> FALSE, entries |-> <<>>]

\* No document, or a document of at most n entries.
Configs(n) ==
    {NoConfig} \cup
    {[exists |-> TRUE, entries |-> es] :
        es \in UNION {[1..m -> CdeEntries] : m \in 0..n}}

\* The validator's inputs: any file with a document of at most one entry,
\* and the files of the CDE columns with documents of up to MaxCde entries.
ValidatorInputs ==
    (Files \X Configs(1)) \cup (CdeFiles \X Configs(MaxCde))

\* The profiler's cde_fields: up to MaxCde names, blanks around some.
FieldPool == <<"email", "account_id", "ssn">>

FieldLists ==
    UNION {[DOMAIN ns -> BOOLEAN] \X {ns} : ns \in SubSeqs(FieldPool, MaxCde)}

FieldItems(pads, ns) == [i \in DOMAIN ns |-> [name |-> ns[i], padded |-> pads[i]]]

ProfilerInputs == {<<f, FieldItems(fl[1], fl[2])>> : f \in Files, fl \in FieldLists}

\* Long columns: a run of zeros, then one more cell.
Repeat(x, k) == [i \in 1..k |-> x]

RunFiles ==
    {[names |-> <<"account_balance">>, rows |-> k + 1,
      cols |-> <<Append(Repeat(Num(0), k), c)>>] :
        k \in 0..MaxRun, c \in {Null, Num(0), Num(5)}}

\* Two numeric columns of MaxRows rows.
PairFiles == FilesOf(<<"account_balance", "account_id">>, MaxRows)

\* Long columns with some spread: a run of zeros, a one and a larger value.
SpreadFiles ==
    {[names |-> <<"account_balance">>, rows |-> k + 2,
      cols |-> <<Repeat(Num(0), k) \o <<Num(1), c>> >>] :
        k \in 0..(MaxRun - 1), c \in {Num(5), Num(10)}}

\* The column of the documented scenario.
ScenarioValues == <<10, 12, 11, 13, 12, 1000>>

ScenarioFiles ==
    {[names |-> <<"account_balance">>, rows |-> Len(ScenarioValues),
      cols |-> <<[i \in DOMAIN ScenarioValues |-> Num(ScenarioValues[i])]>>]}

AnomalyInputs == Files \cup RunFiles \cup PairFiles \cup SpreadFiles \cup ScenarioFiles

(***************************************************************************)
(* Paths.  A data file path has an extension and names a file that may not *)
(* exist; the text stored there is CSV text, JSON text or nothing, and     *)
(* `frame` is the table its own parser makes of it.  A CDE configuration   *)
(* path may be the empty string (not given), name no file, or name text    *)
(* that is not JSON, a JSON object without critical_data_elements, or one  *)
(* with a list of entries, each with or without the key "field".           *)
(***************************************************************************)
NoFrame == [names |-> <<>>, rows |-> 0, cols |-> <<>>]

NoPath == [ext |-> "csv", exists |-> FALSE, text |-> "empty", frame |-> NoFrame]

NoDocPath ==
    [given |-> FALSE, exists |-> FALSE, wellFormed |-> FALSE, hasKey |-> FALSE,
     entries |-> <<>>]

\* pd.read_csv(file_path) raises for a missing or an empty file.
ReadCsvRaises(p) == ~p.exists \/ p.text # "csv"

\* pd.read_json(file_path) raises for a missing file and for text that is
\* not JSON.
ReadJsonRaises(p) == ~p.exists \/ p.text # "json"

\* pd.read_csv(file_path) if file_path.endswith('.csv') else pd.read_json(file_path)
ReadRaises(p) == IF p.ext = "csv" THEN ReadCsvRaises(p) ELSE ReadJsonRaises(p)

\* DataLoaderTool._run
NoLoad ==
    [kind |-> "none", rows |-> 0, columns |-> 0, column_names |-> <<>>,
     sample_rows |-> <<>>, message |-> <<>>]

\* Mutant: the unsupported-format text without its leading word.
UnsupportedTextBare == <<"Unsupported file format. Use CSV or JSON.">>

\* return f"Error: Unsupported file format. Use CSV or JSON."
UnsupportedText == <<"Error", ": Unsupported file format. Use CSV or JSON.">>

UnsupportedFormat == [NoLoad EXCEPT !.kind = "error", !.message = UnsupportedText]

\* return f"Error loading file: {str(e)}"
LoadError == [NoLoad EXCEPT !.kind = "error", !.message = <<"Error", "loading file">>]

\* df.head(3).to_dict(orient='records'): the first three rows, cell by cell.
SampleRows(df) ==
    [r \in 1..(IF df.rows <= 3 THEN df.rows ELSE 3) |->
        [c \in DOMAIN df.names |-> df.cols[c][r]]]

LoadData(p) ==
    IF p.ext \notin {"csv", "json"} THEN UnsupportedFormat
    ELSE IF ReadRaises(p) THEN LoadError
    ELSE [kind |-> "result", rows |-> LenDf(p.frame), columns |-> NumColumns(p.frame),
          column_names |-> p.frame.names, sample_rows |-> SampleRows(p.frame),
          message |-> <<>>]

\* CDELoaderTool._run
NoCde == [kind |-> "none", cde_count |-> 0, cde_fields |-> <<>>, message |-> <<>>]

\* return f"Error loading CDE config: {str(e)}"
CdeError == [NoCde EXCEPT !.kind = "error", !.message = <<"Error", "loading CDE config">>]

\* open(config_path) and json.load(f) raise for the empty path, a missing
\* file and text that is not JSON.
OpenDocRaises(doc) == ~doc.given \/ ~doc.exists \/ ~doc.wellFormed

\* config.get("critical_data_elements", [])
DocEntries(doc) == IF doc.hasKey THEN doc.entries ELSE <<>>

\* cde["field"] raises KeyError for an entry without the key.
FieldKeyRaises(doc) == \E i \in DOMAIN DocEntries(doc) : ~DocEntries(doc)[i].hasField

LoadCde(doc) ==
    IF OpenDocRaises(doc) \/ FieldKeyRaises(doc) THEN CdeError
    ELSE [kind |-> "result",
          cde_count |-> Len(DocEntries(doc)),
          cde_fields |-> [i \in DOMAIN DocEntries(doc) |-> DocEntries(doc)[i].field],
          message |-> <<>>]

\* ProfilerTool._run, from the path.
ProfileFile(p, fields) == IF ReadRaises(p) THEN ProfilerError ELSE Profile(p.frame, fields)

\* if cde_config_path and os.path.exists(cde_config_path): the document is
\* read only when the path is given and names a file.
DocIsRead(doc) == doc.given /\ doc.exists

DocRaises(doc) == DocIsRead(doc) /\ (~doc.wellFormed \/ FieldKeyRaises(doc))

\* The entries of the document, as rules.get reads them.
AsConfig(doc) ==
    [exists |-> DocIsRead(doc),
     entries |-> IF DocIsRead(doc)
                 THEN [i \in DOMAIN DocEntries(doc) |->
                          [field |-> DocEntries(doc)[i].field,
                           nullable |-> DocEntries(doc)[i].nullable,
                           unique |-> DocEntries(doc)[i].unique]]
                 ELSE <<>>]

\* ValidatorTool._run, from the paths.
ValidateFile(p, doc, now) ==
    IF ReadRaises(p) \/ DocRaises(doc) THEN ValidatorError
    ELSE Validate(p.frame, AsConfig(doc), now)

\* AnomalyDetectorTool._run, from the path.
DetectFile(p) == IF ReadRaises(p) THEN AnomalyError ELSE DetectAnomalies(p.frame)

(***************************************************************************)
(* DataQualityCrew (src/src/crew.py): the task list create_crew builds,    *)
(* the context of each task, and the events of a sequential run.           *)
(***************************************************************************)
AnalysisTasks == <<"profiling_task", "validation_task", "anomaly_task">>

\* Mutant: the report task is put before the anomaly task.
CrewTasksReportEarly(polish) ==
    <<"profiling_task", "validation_task", "report_task", "anomaly_task">>
        \o (IF polish THEN <<"polish_task">> ELSE <<>>)

\* tasks = [...]; if self.polish: tasks.append(self.polish_task)
CrewTasks(polish) ==
    <<"profiling_task", "validation_task", "anomaly_task", "report_task">>
        \o (IF polish THEN <<"polish_task">> ELSE <<>>)

\* self.report_task.context = [...]; self.polish_task.context = [self.report_task]
TaskContext(polish) ==
    [t \in Range(CrewTasks(polish)) |->
        IF t = "report_task" THEN AnalysisTasks
        ELSE IF t = "polish_task" THEN <<"report_task">>
        ELSE <<>>]

\* DataQualityCrew(data_file, cde_config, polish).create_crew()
CreateCrew(polish) ==
    [polish |-> polish, tasks |-> CrewTasks(polish), context |-> TaskContext(polish),
     running |-> 0, done |-> 0, log |-> <<>>]

NoCrew == [polish |-> FALSE, tasks |-> <<>>, context |-> <<>>,
           running |-> 0, done |-> 0, log |-> <<>>]

(***************************************************************************)
(* Operations.                                                             *)
(***************************************************************************)
\* ValidatorTool()._run(file_path, cde_config_path)
RunValidator(f, cfg) ==
    /\ file' = f
    /\ cdeConfig' = cfg
    /\ valOut' = Validate(f, cfg, today)
    /\ seen' = seen \cup {<<"validator", f, cfg, valOut'>>}
    /\ UNCHANGED <<cdeFields, today, profOut, anomOut, pathVars>>

\* ProfilerTool()._run(file_path, cde_fields)
RunProfiler(f, fields) ==
    /\ file' = f
    /\ cdeFields' = fields
    /\ profOut' = Profile(f, fields)
    /\ seen' = seen \cup {<<"profiler", f, fields, profOut'>>}
    /\ UNCHANGED <<cdeConfig, today, valOut, anomOut, pathVars>>

\* AnomalyDetectorTool()._run(file_path)
RunAnomalyDetector(f) ==
    /\ file' = f
    /\ anomOut' = DetectAnomalies(f)
    /\ seen' = seen \cup {<<"anomaly", f, anomOut'>>}
    /\ UNCHANGED <<cdeConfig, cdeFields, today, valOut, profOut, pathVars>>

\* A day passes.
Tick ==
    /\ today < StartDay + MaxDay
    /\ today' = today + 1
    /\ UNCHANGED <<file, cdeConfig, cdeFields, valOut, profOut, anomOut, seen, pathVars>>

NoFile == [names |-> <<>>, rows |-> 0, cols |-> <<>>]

InitTools ==
    /\ file = NoFile
    /\ cdeConfig = NoConfig
    /\ cdeFields = <<>>
    /\ today = StartDay
    /\ valOut = NoOutput
    /\ profOut = NoProfile
    /\ anomOut = NoAnomalies
    /\ seen = {}
    /\ path = NoPath
    /\ configDoc = NoDocPath
    /\ loadOut = NoLoad
    /\ cdeOut = NoCde
    /\ crew = NoCrew

\* One call of the tool on any file and configuration.
NextValidator ==
    /\ seen = {}
    /\ \E in \in ValidatorInputs : RunValidator(in[1], in[2])

SpecValidator == InitTools /\ [][NextValidator]_vars

\* One call of the profiler on any file and field list.
NextProfiler ==
    /\ seen = {}
    /\ \E in \in ProfilerInputs : RunProfiler(in[1], in[2])

SpecProfiler == InitTools /\ [][NextProfiler]_vars

\* One call of the anomaly detector on any file.
NextAnomaly ==
    /\ seen = {}
    /\ \E f \in AnomalyInputs : RunAnomalyDetector(f)

SpecAnomaly == InitTools /\ [][NextAnomaly]_vars

(***************************************************************************)
(* Repeated runs: the three tools are run again and again, as days pass,   *)
(* on one data file and one CDE document (DataQualityCrew's data_file and  *)
(* cde_config); the profiler is given the fields the document names.       *)
(***************************************************************************)
EngineFiles == {f \in Files : f.rows <= MaxEngineRows}

ConfigFields(cfg) ==
    [i \in DOMAIN cfg.entries |-> [name |-> cfg.entries[i].field, padded |-> FALSE]]

Init ==
    /\ file \in EngineFiles
    /\ cdeConfig \in Configs(1)
    /\ cdeFields = ConfigFields(cdeConfig)
    /\ today = StartDay
    /\ valOut = NoOutput
    /\ profOut = NoProfile
    /\ anomOut = NoAnomalies
    /\ seen = {}
    /\ path = NoPath
    /\ configDoc = NoDocPath
    /\ loadOut = NoLoad
    /\ cdeOut = NoCde
    /\ crew = NoCrew

Next ==
    \/ RunProfiler(file, cdeFields)
    \/ RunValidator(file, cdeConfig)
    \/ RunAnomalyDetector(file)
    \/ Tick

Spec == Init /\ [][Next]_vars

(***************************************************************************)
(* Calls by path: each of the five tools, called once on any path.         *)
(***************************************************************************)
Extensions == {"csv", "json", "txt"}

\* A file of CSV text has a header line, so its table has columns; a .csv
\* path holds CSV text or nothing.
PathsOf(frames) ==
    {p \in [ext : Extensions, exists : {TRUE}, text : {"csv", "json"}, frame : frames] :
        /\ p.ext = "csv" => p.text = "csv"
        /\ p.text = "csv" => p.frame.names # <<>>}
    \cup {[ext |-> x, exists |-> b, text |-> "empty", frame |-> NoFrame] :
            x \in Extensions, b \in BOOLEAN}

DocEntryPool ==
    [hasField : {TRUE}, field : Range(CdeSchema), nullable : BOOLEAN, unique : BOOLEAN]
    \cup {[hasField |-> FALSE, field |-> "", nullable |-> FALSE, unique |-> FALSE]}

Docs(n) ==
    {NoDocPath,
     [NoDocPath EXCEPT !.given = TRUE],
     [NoDocPath EXCEPT !.given = TRUE, !.exists = TRUE],
     [NoDocPath EXCEPT !.given = TRUE, !.exists = TRUE, !.wellFormed = TRUE]}
    \cup {[given |-> TRUE, exists |-> TRUE, wellFormed |-> TRUE, hasKey |-> TRUE,
           entries |-> es] : es \in UNION {[1..m -> DocEntryPool] : m \in 0..n}}

SmallFrames == {f \in CdeFiles : f.rows <= MaxEngineRows}

\* Files of dates of birth, and documents of one entry that names the column
\* or the column the validator adds to the table.
DobFrames == FilesOver(<<"date_of_birth">>)

DobDocs ==
    {NoDocPath} \cup
    {[given |-> TRUE, exists |-> TRUE, wellFormed |-> TRUE, hasKey |-> TRUE,
      entries |-> <<e>>] :
        e \in [hasField : {TRUE}, field : {"date_of_birth", "dob_parsed"},
               nullable : BOOLEAN, unique : BOOLEAN]}

ValidatorPathInputs ==
    (PathsOf(SmallFrames) \X Docs(MaxCde)) \cup (PathsOf(DobFrames) \X DobDocs)

\* The table the tool has read, if it has.
FrameRead(p) == IF ReadRaises(p) THEN NoFrame ELSE p.frame

\* DataLoaderTool()._run(file_path)
RunDataLoader(p) ==
    /\ path' = p
    /\ loadOut' = LoadData(p)
    /\ seen' = seen \cup {<<"loader", p, loadOut'>>}
    /\ UNCHANGED <<file, cdeConfig, cdeFields, today, valOut, profOut, anomOut,
                   configDoc, cdeOut, crew>>

\* CDELoaderTool()._run(config_path)
RunCdeLoader(doc) ==
    /\ configDoc' = doc
    /\ cdeOut' = LoadCde(doc)
    /\ seen' = seen \cup {<<"cde_loader", doc, cdeOut'>>}
    /\ UNCHANGED <<file, cdeConfig, cdeFields, today, valOut, profOut, anomOut,
                   path, loadOut, crew>>

\* ProfilerTool()._run(file_path, cde_fields)
RunProfilerAt(p, fields) ==
    /\ path' = p
    /\ file' = FrameRead(p)
    /\ cdeFields' = fields
    /\ profOut' = ProfileFile(p, fields)
    /\ seen' = seen \cup {<<"profiler", p, fields, profOut'>>}
    /\ UNCHANGED <<cdeConfig, today, valOut, anomOut, configDoc, loadOut, cdeOut, crew>>

\* ValidatorTool()._run(file_path, cde_config_path)
RunValidatorAt(p, doc) ==
    /\ path' = p
    /\ file' = FrameRead(p)
    /\ configDoc' = doc
    /\ cdeConfig' = AsConfig(doc)
    /\ valOut' = ValidateFile(p, doc, today)
    /\ seen' = seen \cup {<<"validator", p, doc, valOut'>>}
    /\ UNCHANGED <<cdeFields, today, profOut, anomOut, loadOut, cdeOut, crew>>

\* AnomalyDetectorTool()._run(file_path)
RunAnomalyDetectorAt(p) ==
    /\ path' = p
    /\ file' = FrameRead(p)
    /\ anomOut' = DetectFile(p)
    /\ seen' = seen \cup {<<"anomaly", p, anomOut'>>}
    /\ UNCHANGED <<cdeConfig, cdeFields, today, valOut, profOut, configDoc, loadOut, cdeOut, crew>>

\* One call of one tool, on any path.
DataLoaderCall ==
    /\ seen = {}
    /\ \E p \in PathsOf(EngineFiles) : RunDataLoader(p)

CdeLoaderCall ==
    /\ seen = {}
    /\ \E doc \in Docs(MaxCde) : RunCdeLoader(doc)

ProfilerCall ==
    /\ seen = {}
    /\ \E p \in PathsOf(EngineFiles), fl \in FieldLists :
          RunProfilerAt(p, FieldItems(fl[1], fl[2]))

ValidatorCall ==
    /\ seen = {}
    /\ \E in \in ValidatorPathInputs : RunValidatorAt(in[1], in[2])

AnomalyDetectorCall ==
    /\ seen = {}
    /\ \E p \in PathsOf(EngineFiles) : RunAnomalyDetectorAt(p)

NextFiles ==
    \/ DataLoaderCall
    \/ CdeLoaderCall
    \/ ProfilerCall
    \/ ValidatorCall
    \/ AnomalyDetectorCall

SpecFiles == InitTools /\ [][NextFiles]_vars

(***************************************************************************)
(* A run of DataQualityCrew on a data file and a CDE configuration:        *)
(* Process.sequential starts the tasks one at a time, in list order, each  *)
(* after the one before it has completed.  An analysis task completes with *)
(* what its agent's tool returned, a result or a failure text.             *)
(***************************************************************************)
Event(kind, task, failed) == [event |-> kind, task |-> task, failed |-> failed]

Running(t) == crew.running # 0 /\ crew.tasks[crew.running] = t

\* The next task of the list starts.
StartTask ==
    /\ crew.running = 0
    /\ crew.done < Len(crew.tasks)
    /\ crew' = [crew EXCEPT !.running = crew.done + 1,
                            !.log = Append(@, Event("start", crew.tasks[crew.done + 1], FALSE))]
    /\ UNCHANGED <<file, cdeConfig, cdeFields, today, valOut, profOut, anomOut, seen,
                   path, configDoc, loadOut, cdeOut>>

\* The running task completes.
Complete(t, failed) ==
    crew' = [crew EXCEPT !.running = 0, !.done = @ + 1,
                         !.log = Append(@, Event("end", t, failed))]

\* The fields the profiler agent's CDE loader finds in the configuration.
CrewFields ==
    LET out == LoadCde(configDoc)
    IN  [i \in DOMAIN out.cde_fields |-> [name |-> out.cde_fields[i], padded |-> FALSE]]

FinishProfiling ==
    /\ Running("profiling_task")
    /\ file' = FrameRead(path)
    /\ cdeOut' = LoadCde(configDoc)
    /\ cdeFields' = CrewFields
    /\ profOut' = ProfileFile(path, CrewFields)
    /\ Complete("profiling_task", profOut'.kind = "error")
    /\ UNCHANGED <<cdeConfig, today, valOut, anomOut, seen, path, configDoc, loadOut>>

FinishValidation ==
    /\ Running("validation_task")
    /\ file' = FrameRead(path)
    /\ cdeConfig' = AsConfig(configDoc)
    /\ valOut' = ValidateFile(path, configDoc, today)
    /\ Complete("validation_task", valOut'.kind = "error")
    /\ UNCHANGED <<cdeFields, today, profOut, anomOut, seen, path, configDoc, loadOut, cdeOut>>

FinishAnomaly ==
    /\ Running("anomaly_task")
    /\ file' = FrameRead(path)
    /\ anomOut' = DetectFile(path)
    /\ Complete("anomaly_task", anomOut'.kind = "error")
    /\ UNCHANGED <<cdeConfig, cdeFields, today, valOut, profOut, seen, path, configDoc,
                   loadOut, cdeOut>>

FinishReport ==
    /\ Running("report_task")
    /\ Complete("report_task", FALSE)
    /\ UNCHANGED <<file, cdeConfig, cdeFields, today, valOut, profOut, anomOut, seen,
                   path, configDoc, loadOut, cdeOut>>

FinishPolish ==
    /\ Running("polish_task")
    /\ Complete("polish_task", FALSE)
    /\ UNCHANGED <<file, cdeConfig, cdeFields, today, valOut, profOut, anomOut, seen,
                   path, configDoc, loadOut, cdeOut>>

InitCrew ==
    /\ file = NoFile
    /\ cdeConfig = NoConfig
    /\ cdeFields = <<>>
    /\ today = StartDay
    /\ valOut = NoOutput
    /\ profOut = NoProfile
    /\ anomOut = NoAnomalies
    /\ seen = {}
    /\ path \in PathsOf(SmallFrames)
    /\ configDoc \in Docs(1)
    /\ loadOut = NoLoad
    /\ cdeOut = NoCde
    /\ crew \in {CreateCrew(polish) : polish \in BOOLEAN}

NextCrew ==
    \/ StartTask
    \/ FinishProfiling
    \/ FinishValidation
    \/ FinishAnomaly
    \/ FinishReport
    \/ FinishPolish

SpecCrew == InitCrew /\ [][NextCrew]_vars

(***************************************************************************)
(* Properties of ValidatorTool (checked under SpecValidator).              *)
(***************************************************************************)
ValidatorReturned == valOut.kind = "result"

IssuesOf(field, rule) ==
    {i \in DOMAIN valOut.issues :
        valOut.issues[i].field = field /\ valOut.issues[i].rule = rule}

\* The rows and columns of the dataset as loaded from the file.
LoadedCells == file.rows * Len(file.names)

\* C1: whenever the validator returns a structured result, validity_score
\* is 1 - (sum of invalid_count over the issues) / (rows x columns of the
\* dataset as loaded), rounded to 4 decimals.
C1_ScoreOverLoadedCells ==
    ValidatorReturned =>
        valOut.validity_score =
            Round4(LoadedCells - InvalidTotal(valOut.issues), LoadedCells)

\* What the two CDE rules must report for a field under the rules of entry e:
\* one cde_not_nullable issue counting the null rows iff nullable is false and
\* a null exists; one cde_uniqueness issue counting non-null minus distinct
\* non-null iff unique is true and a non-null value repeats.
CdeOutcome(e) ==
    LET col == Column(file, e.field)
        nulls == Cardinality({i \in DOMAIN col : col[i] = Null})
        nonNull == Len(col) - nulls
        distinct == Cardinality(Range(col) \ {Null})
        nn == IssuesOf(e.field, "cde_not_nullable")
        uq == IssuesOf(e.field, "cde_uniqueness")
    IN  /\ IF e.nullable = FALSE /\ nulls > 0
           THEN /\ Cardinality(nn) = 1
                /\ \A i \in nn : /\ valOut.issues[i].invalid_count = nulls
                                 /\ valOut.issues[i].severity = "CRITICAL"
           ELSE nn = {}
        /\ IF e.unique = TRUE /\ nonNull > distinct
           THEN /\ Cardinality(uq) = 1
                /\ \A i \in uq : /\ valOut.issues[i].invalid_count = nonNull - distinct
                                 /\ valOut.issues[i].severity = "CRITICAL"
           ELSE uq = {}

EmailFailing ==
    LET col == Column(file, "email")
    IN  Cardinality({i \in DOMAIN col : col[i] # Null /\ ~EmailMatch(col[i].s)})

PhoneFailing ==
    LET col == Column(file, "phone")
    IN  Cardinality({i \in DOMAIN col : col[i] # Null /\ ~PhoneMatch(col[i].s)})

FormatOutcome(name, severity, n) ==
    LET got == IssuesOf(name, "format_validation")
    IN  IF n = 0 THEN got = {}
        ELSE /\ Cardinality(got) = 1
             /\ \A i \in got : /\ valOut.issues[i].invalid_count = n
                               /\ valOut.issues[i].severity = severity

RuleRank(issue) ==
    CASE issue.rule = "format_validation" /\ issue.field = "email" -> 1
      [] issue.rule = "format_validation" /\ issue.field = "phone" -> 2
      [] issue.rule = "future_date" -> 3
      [] issue.rule = "negative_value" -> 4
      [] issue.rule = "range_validation" -> 5
      [] issue.rule = "cde_not_nullable" -> 6
      [] issue.rule = "cde_uniqueness" -> 7
      [] OTHER -> 0

\* Where the document first names a field.
FirstNamed(field) ==
    CHOOSE k \in DOMAIN cdeConfig.entries :
        /\ cdeConfig.entries[k].field = field
        /\ \A m \in 1..(k - 1) : cdeConfig.entries[m].field # field

C6_SameInputsSameOutputs ==
    \A a, b \in seen :
        (a[1] = b[1] /\ a[2] = b[2]) =>
            CASE a[1] = "validator" ->
                    a[3] = b[3] =>
                        /\ a[4].kind = b[4].kind
                        /\ a[4].issues = b[4].issues
                        /\ a[4].validity_score = b[4].validity_score
              [] a[1] = "profiler" ->
                    a[3] = b[3] => a[4].column_profiles = b[4].column_profiles
              [] OTHER -> a[3].anomalies = b[3].anomalies

(***************************************************************************)
(* Properties of ProfilerTool (checked under SpecProfiler).                *)
(***************************************************************************)
ProfilerCalled == profOut.kind # "none"
ProfilerReturned == profOut.kind = "result"

\* The fixed CDE vocabulary, and the letters of the column names.
CDE_PATTERNS ==
    { <<"c", "u", "s", "t", "o", "m", "e", "r", "_", "i", "d">>,
      <<"a", "c", "c", "o", "u", "n", "t", "_", "i", "d">>,
      <<"t", "r", "a", "n", "s", "a", "c", "t", "i", "o", "n", "_", "i", "d">>,
      <<"s", "s", "n">>,
      <<"t", "a", "x", "_", "i", "d">>,
      <<"e", "i", "n">>,
      <<"e", "m", "a", "i", "l">>,
      <<"p", "h", "o", "n", "e">>,
      <<"a", "d", "d", "r", "e", "s", "s">>,
      <<"b", "a", "l", "a", "n", "c", "e">>,
      <<"a", "m", "o", "u", "n", "t">>,
      <<"r", "e", "v", "e", "n", "u", "e">>,
      <<"d", "a", "t", "e", "_", "o", "f", "_", "b", "i", "r", "t", "h">>,
      <<"d", "o", "b">>,
      <<"n", "a", "m", "e">>,
      <<"f", "i", "r", "s", "t", "_", "n", "a", "m", "e">>,
      <<"l", "a", "s", "t", "_", "n", "a", "m", "e">> }

Spelling(name) ==
    CASE name = "email" -> <<"e", "m", "a", "i", "l">>
      [] name = "phone" -> <<"p", "h", "o", "n", "e">>
      [] name = "date_of_birth" -> <<"d", "a", "t", "e", "_", "o", "f", "_", "b", "i", "r", "t", "h">>
      [] name = "account_balance" -> <<"a", "c", "c", "o", "u", "n", "t", "_", "b", "a", "l", "a", "n", "c", "e">>
      [] name = "credit_score" -> <<"c", "r", "e", "d", "i", "t", "_", "s", "c", "o", "r", "e">>
      [] name = "account_id" -> <<"a", "c", "c", "o", "u", "n", "t", "_", "i", "d">>
      [] name = "ssn" -> <<"s", "s", "n">>

UpperLetters == <<"A", "B", "C", "D", "E", "F", "G", "H", "I", "J", "K", "L", "M", "N", "O", "P", "Q", "R", "S", "T", "U", "V", "W", "X", "Y", "Z">>
LowerLetters == <<"a", "b", "c", "d", "e", "f", "g", "h", "i", "j", "k", "l", "m", "n", "o", "p", "q", "r", "s", "t", "u", "v", "w", "x", "y", "z">>

ToLower(ch) ==
    IF ch \in Range(UpperLetters) THEN LowerLetters[IndexOf(UpperLetters, ch)] ELSE ch

Contains(hay, pat) ==
    \E k \in 0..(Len(hay) - Len(pat)) : \A j \in 1..Len(pat) : hay[k + j] = pat[j]

MatchesVocabulary(name) ==
    LET low == [i \in DOMAIN Spelling(name) |-> ToLower(Spelling(name)[i])]
    IN  \E pat \in CDE_PATTERNS : Contains(low, pat)

\* C7: is_cde is true exactly for the columns that are supplied as CDE
\* fields or whose name contains an entry of the CDE vocabulary.
C7_CdeByNameOrVocabulary ==
    ProfilerReturned =>
        \A i \in DOMAIN profOut.column_profiles :
            LET p == profOut.column_profiles[i]
            IN  p.is_cde <=>
                    \/ p.column \in {cdeFields[k].name : k \in DOMAIN cdeFields}
                    \/ MatchesVocabulary(p.column)

InUnit(r) == r.t = "num" /\ 0 <= r.v /\ r.v <= 10000

\* C8: for every profiled dataset, zero rows included, completeness and
\* uniqueness of every column are numbers in [0, 1], and uniqueness is 0 for
\* a column without non-missing values.
C8_RatiosInUnitInterval ==
    ProfilerReturned =>
        \A i \in DOMAIN profOut.column_profiles :
            LET p == profOut.column_profiles[i]
            IN  /\ InUnit(p.completeness)
                /\ InUnit(p.uniqueness)
                /\ p.non_null_count = 0 => p.uniqueness = Ratio(0)

\* The positions of the columns profiled with is_cde = true.
CdePositions == {i \in DOMAIN profOut.column_profiles : profOut.column_profiles[i].is_cde}

\* r is the mean of the completeness of the columns at positions ps, rounded
\* to 4 decimals (NaN when one of them is NaN).
IsMeanCompleteness(r, ps) ==
    LET sum == SumSeq([i \in DOMAIN profOut.column_profiles |->
                          IF i \in ps THEN profOut.column_profiles[i].completeness.v ELSE 0])
        m == Cardinality(ps)
    IN  IF \E i \in ps : profOut.column_profiles[i].completeness.t = "nan"
        THEN r.t = "nan"
        ELSE r.t = "num" /\ 2 * Abs(r.v * m - sum) <= m

\* C9: the profiler's summary never fails on a division by zero: without a
\* CDE column cde_completeness is null and a structured summary is returned;
\* otherwise cde_completeness is the mean completeness of exactly the CDE
\* columns, and cde_columns is their count.
C9_SummaryNeverFails ==
    ProfilerCalled =>
        /\ ProfilerReturned
        /\ profOut.cde_columns = Cardinality(CdePositions)
        /\ IF CdePositions = {} THEN profOut.cde_completeness = None
           ELSE IsMeanCompleteness(profOut.cde_completeness, CdePositions)

(***************************************************************************)
(* Properties of AnomalyDetectorTool (checked under SpecAnomaly).          *)
(***************************************************************************)
AnomalyReturned == anomOut.kind = "result"

NonMissing(col) == Cardinality({i \in DOMAIN col : col[i] # Null})

\* The columns that must be reported: numeric, at least 3 non-missing values,
\* and an outlier under either method.
MustReport(i) ==
    /\ IsNumericDtype(file.cols[i])
    /\ NonMissing(file.cols[i]) >= 3
    /\ \/ ZScoreOutliers(Values(file.cols[i])) > 0
       \/ IqrOutliers(Values(file.cols[i])) > 0

ZeroVariance(i) ==
    /\ IsNumericDtype(file.cols[i])
    /\ Cardinality(Range(file.cols[i]) \ {Null}) = 1

\* C10: the anomalies list holds exactly the numeric columns with at least 3
\* non-missing values and an outlier count > 0, in dataset column order;
\* columns_with_anomalies is its length and at most numeric_columns_analyzed;
\* a zero-variance column causes no failure and is not reported.
C10_AnomalyList ==
    anomOut.kind # "none" =>
        LET R == anomOut.anomalies
        IN  /\ AnomalyReturned
            /\ {R[k].column : k \in DOMAIN R} = {file.names[i] : i \in {j \in DOMAIN file.names : MustReport(j)}}
            /\ \A k, l \in DOMAIN R :
                  k < l => IndexOf(file.names, R[k].column) < IndexOf(file.names, R[l].column)
            /\ anomOut.columns_with_anomalies = Len(R)
            /\ Len(R) <= anomOut.numeric_columns_analyzed
            /\ \A i \in DOMAIN file.names :
                  ZeroVariance(i) => \A k \in DOMAIN R : R[k].column # file.names[i]

\* Two numeric columns, both reported, in the order of the file.
C10_Witness ==
    /\ AnomalyReturned
    /\ Len(file.names) = 2
    /\ Len(anomOut.anomalies) = 2
    /\ anomOut.anomalies[1].column = file.names[1]
    /\ anomOut.anomalies[1].outliers_iqr = 1
    /\ anomOut.numeric_columns_analyzed = 2

\* The report of the column at position i, as a set (empty when not reported).
ReportsOf(i) ==
    {anomOut.anomalies[k] : k \in {j \in DOMAIN anomOut.anomalies :
                                      anomOut.anomalies[j].column = file.names[i]}}

\* The numeric columns with at least 3 non-missing values.
Analyzed == {i \in DOMAIN file.names :
                IsNumericDtype(file.cols[i]) /\ NonMissing(file.cols[i]) >= 3}

\* The values x of xs with |x - m| > 3 s, s the sample standard deviation:
\* (n x - S)^2 (n - 1) > 9 n (n Q - S^2).
SampleZScoreCount(xs) ==
    LET n == Len(xs)
        S == SumSeq(xs)
        Q == SumSeq([i \in DOMAIN xs |-> xs[i] * xs[i]])
    IN  Cardinality({i \in DOMAIN xs :
            (n * xs[i] - S) * (n * xs[i] - S) * (n - 1) > 9 * n * (n * Q - S * S)})

\* C11: for every numeric column with at least 3 non-missing values,
\* outliers_zscore is the number of values more than 3 sample standard
\* deviations (n-1 denominator) away from the mean, strictly.
C11_SampleZScore ==
    AnomalyReturned =>
        \A i \in Analyzed :
            /\ \A r \in ReportsOf(i) :
                  r.outliers_zscore = SampleZScoreCount(Values(file.cols[i]))
            /\ ReportsOf(i) = {} => SampleZScoreCount(Values(file.cols[i])) = 0

\* Four times the k-th quartile of xs by linear interpolation: the value at
\* rank h = (n - 1) k / 4 of the ascending values, a fraction of the way from
\* the value below to the value above.
LinearQuartile4(xs, k) ==
    LET s == Sorted(xs)
        n == Len(xs)
        below == ((n - 1) * k) \div 4
        part == ((n - 1) * k) % 4
        above == IF below + 2 <= n THEN below + 2 ELSE n
    IN  4 * s[below + 1] + part * (s[above] - s[below + 1])

\* The values strictly outside [Q1 - 1.5 IQR, Q3 + 1.5 IQR], in eighths.
FenceCount(xs) ==
    LET q1 == LinearQuartile4(xs, 1)
        q3 == LinearQuartile4(xs, 3)
    IN  Cardinality({i \in DOMAIN xs :
            8 * xs[i] < 5 * q1 - 3 * q3 \/ 8 * xs[i] > 5 * q3 - 3 * q1})

IsScenario(i) == Values(file.cols[i]) = ScenarioValues /\ NonMissing(file.cols[i]) = file.rows

\* C12: for every numeric column with at least 3 non-missing values,
\* outliers_iqr is the number of values strictly below Q1 - 1.5 IQR or
\* strictly above Q3 + 1.5 IQR, Q1 and Q3 linearly interpolated; the column
\* [10,12,11,13,12,1000] is reported with the count 1.
C12_IqrCount ==
    AnomalyReturned =>
        \A i \in Analyzed :
            /\ \A r \in ReportsOf(i) : r.outliers_iqr = FenceCount(Values(file.cols[i]))
            /\ ReportsOf(i) = {} => FenceCount(Values(file.cols[i])) = 0
            /\ IsScenario(i) => \E r \in ReportsOf(i) : r.outliers_iqr = 1

\* The documented column has been analysed and reported for its value 1000.
C12_Witness ==
    /\ AnomalyReturned
    /\ \E i \in Analyzed :
          /\ IsScenario(i)
          /\ \E r \in ReportsOf(i) : r.outliers_iqr = 1 /\ r.outliers_zscore = 0

(***************************************************************************)
(* Properties of the calls by path (checked under SpecFiles).              *)
(***************************************************************************)
Called(out) == out.kind # "none"

\* A single failure value: a text beginning with "Error".
IsFailure(out) == out.kind = "error" /\ out.message # <<>> /\ Head(out.message) = "Error"

Min(a, b) == IF a <= b THEN a ELSE b

\* C13: each of the five tools returns, for every input, either a complete
\* structured result or a single failure value beginning with "Error", and
\* a failure carries no partial result.
C13_ResultOrFailure ==
    /\ Called(loadOut) =>
          IF loadOut.kind = "result"
          THEN /\ loadOut.column_names = path.frame.names
               /\ loadOut.columns = Len(loadOut.column_names)
               /\ loadOut.rows = path.frame.rows
               /\ Len(loadOut.sample_rows) = Min(loadOut.rows, 3)
          ELSE IsFailure(loadOut) /\ loadOut.column_names = <<>> /\ loadOut.sample_rows = <<>>
    /\ Called(cdeOut) =>
          IF cdeOut.kind = "result"
          THEN cdeOut.cde_count = Len(cdeOut.cde_fields)
          ELSE IsFailure(cdeOut) /\ cdeOut.cde_fields = <<>>
    /\ Called(profOut) =>
          IF profOut.kind = "result"
          THEN /\ profOut.total_columns = Len(path.frame.names)
               /\ Len(profOut.column_profiles) = profOut.total_columns
          ELSE IsFailure(profOut) /\ profOut.column_profiles = <<>>
    /\ Called(valOut) =>
          IF valOut.kind = "result"
          THEN valOut.total_records = path.frame.rows
          ELSE IsFailure(valOut) /\ valOut.issues = <<>>
    /\ Called(anomOut) =>
          IF anomOut.kind = "result"
          THEN anomOut.columns_with_anomalies = Len(anomOut.anomalies)
          ELSE IsFailure(anomOut) /\ anomOut.anomalies = <<>>

\* The validator has read its data file, failed on a configuration file that
\* is not JSON, and returned the failure alone.
C13_Witness ==
    /\ IsFailure(valOut)
    /\ ~ReadRaises(path)
    /\ path.frame.rows > 0
    /\ configDoc.exists /\ ~configDoc.wellFormed
    /\ valOut.issues = <<>>

\* C14: for a path whose extension is neither .csv nor .json, DataLoaderTool
\* returns the unsupported-format failure, and ProfilerTool, ValidatorTool
\* and AnomalyDetectorTool return a failure too.
C14_UnsupportedEverywhere ==
    path.ext \notin {"csv", "json"} =>
        /\ Called(loadOut) => loadOut = UnsupportedFormat
        /\ Called(profOut) => IsFailure(profOut)
        /\ Called(valOut) => IsFailure(valOut)
        /\ Called(anomOut) => IsFailure(anomOut)

\* C15: without a CDE configuration path, CDELoaderTool returns the empty
\* CDE set (cde_count = 0, cde_fields = []); it returns a failure only for a
\* configuration that is present but malformed or missing required keys.
C15_AbsentConfigIsEmpty ==
    Called(cdeOut) =>
        /\ ~configDoc.given =>
              cdeOut.kind = "result" /\ cdeOut.cde_count = 0 /\ cdeOut.cde_fields = <<>>
        /\ cdeOut.kind = "error" =>
              /\ configDoc.given /\ configDoc.exists
              /\ ~configDoc.wellFormed \/ FieldKeyRaises(configDoc)

\* The entries of a document that name a column of the table.
RECURSIVE PresentEntries(_, _)
PresentEntries(es, names) ==
    IF es = <<>> THEN <<>>
    ELSE (IF Head(es).hasField /\ Head(es).field \notin Range(names) THEN <<>>
          ELSE <<Head(es)>>) \o PresentEntries(Tail(es), names)

RECURSIVE PresentFields(_, _)
PresentFields(fs, names) ==
    IF fs = <<>> THEN <<>>
    ELSE (IF Head(fs).name \notin Range(names) THEN <<>> ELSE <<Head(fs)>>)
            \o PresentFields(Tail(fs), names)

CdeRuleNames == {"cde_not_nullable", "cde_uniqueness"}

\* C16: a configured field that is not a column of the dataset is listed by
\* CDELoaderTool, gets no cde_not_nullable or cde_uniqueness issue from
\* ValidatorTool and is not counted in ProfilerTool's cde_columns; neither
\* tool fails because of it, and their results are those of the same call
\* without the absent field.
C16_AbsentFieldIgnored ==
    /\ cdeOut.kind = "result" =>
          /\ cdeOut.cde_fields =
                [i \in DOMAIN DocEntries(configDoc) |-> DocEntries(configDoc)[i].field]
          /\ cdeOut.cde_count = Len(DocEntries(configDoc))
    /\ (Called(valOut) /\ ~ReadRaises(path) /\ ~DocRaises(configDoc)) =>
          /\ \A i \in DOMAIN valOut.issues :
                valOut.issues[i].rule \in CdeRuleNames =>
                    valOut.issues[i].field \in Range(path.frame.names)
          /\ valOut = ValidateFile(path,
                        [configDoc EXCEPT !.entries = PresentEntries(@, path.frame.names)],
                        today)
    /\ (Called(profOut) /\ ~ReadRaises(path)) =>
          /\ profOut.cde_columns <=
                Cardinality(Range(path.frame.names)
                              \cap {cdeFields[k].name : k \in DOMAIN cdeFields})
          /\ profOut = ProfileFile(path, PresentFields(cdeFields, path.frame.names))

(***************************************************************************)
(* Further properties of ValidatorTool (checked under SpecValidator).      *)
(***************************************************************************)
IssueKeys == {"field", "rule", "severity", "invalid_count", "sample_invalid", "message"}

\* The sample holds cells of the column, in the order of the rows.
InColumnOrder(sample, col) ==
    \E at \in [DOMAIN sample -> DOMAIN col] :
        /\ \A a, b \in DOMAIN sample : a < b => at[a] < at[b]
        /\ \A a \in DOMAIN sample : sample[a] = col[at[a]]

\* C17: every issue, whatever its rule, carries field, rule, severity,
\* invalid_count, sample_invalid and message, and its sample_invalid holds
\* between 1 and 3 values.
C17_IssueShape ==
    ValidatorReturned =>
        \A i \in DOMAIN valOut.issues :
            /\ IssueKeys \subseteq valOut.issues[i].keys
            /\ Len(valOut.issues[i].sample_invalid) >= 1
            /\ Len(valOut.issues[i].sample_invalid) <= 3
            /\ Len(valOut.issues[i].sample_invalid) = Min(valOut.issues[i].invalid_count, 3)
            /\ InColumnOrder(valOut.issues[i].sample_invalid, Column(file, valOut.issues[i].field))

(***************************************************************************)
(* Properties of DataQualityCrew (checked under SpecCrew).                 *)
(***************************************************************************)
\* The tasks of the events of the given kind, in the order of the log.
RECURSIVE TasksOf(_, _)
TasksOf(log, kind) ==
    IF log = <<>> THEN <<>>
    ELSE (IF Head(log).event = kind THEN <<Head(log).task>> ELSE <<>>)
            \o TasksOf(Tail(log), kind)

FixedOrder(polish) ==
    <<"profiling_task", "validation_task", "anomaly_task", "report_task">>
        \o (IF polish THEN <<"polish_task">> ELSE <<>>)

\* The task has completed before the k-th event.
EndedBefore(t, k) ==
    \E j \in 1..(k - 1) : crew.log[j].event = "end" /\ crew.log[j].task = t

\* C18: the tasks run in the order profiling, validation, anomaly detection,
\* report, then polish only when polish = True; the report task starts only
\* after the three analysis tasks have completed, whatever they returned; its
\* context is exactly those three tasks.
C18_TaskOrder ==
    LET started == TasksOf(crew.log, "start")
        ended == TasksOf(crew.log, "end")
    IN  /\ Len(started) <= Len(FixedOrder(crew.polish))
        /\ started = SubSeq(FixedOrder(crew.polish), 1, Len(started))
        /\ ended = SubSeq(FixedOrder(crew.polish), 1, Len(ended))
        /\ \A k \in DOMAIN crew.log :
              crew.log[k].event = "start" =>
                  \A j \in 1..(Len(TasksOf(SubSeq(crew.log, 1, k), "start")) - 1) :
                      EndedBefore(FixedOrder(crew.polish)[j], k)
        /\ \A k \in DOMAIN crew.log :
              (crew.log[k].event = "start" /\ crew.log[k].task = "report_task") =>
                  \A t \in Range(AnalysisTasks) : EndedBefore(t, k)
        /\ crew.context["report_task"] = <<"profiling_task", "validation_task", "anomaly_task">>
        /\ (crew.done = 3 /\ crew.running = 0) => ENABLED StartTask
        /\ (~crew.polish /\ crew.done = 4) => ~ENABLED StartTask

\* The validator returned a failure, the profiler and the anomaly detector
\* returned results, and the report task has started after them; the polish
\* task ran last.
C18_Witness ==
    /\ crew.polish
    /\ crew.done = 5
    /\ valOut.kind = "error" /\ profOut.kind = "result" /\ anomOut.kind = "result"
    /\ \E k \in DOMAIN crew.log :
          /\ crew.log[k] = Event("start", "report_task", FALSE)
          /\ \E j \in 1..(k - 1) : crew.log[j] = Event("end", "validation_task", TRUE)
    /\ crew.log[Len(crew.log)] = Event("end", "polish_task", FALSE)

(***************************************************************************)
(* Properties of the validity score (checked under SpecValidator).         *)
(***************************************************************************)
\* C19: validity_score is never greater than 1 and is not clamped below 0:
\* whenever the sum of invalid_count over the issues exceeds the number of
\* cells of the dataset, the score is negative.
C19_ScoreNegativeBeyondCells ==
    ValidatorReturned =>
        /\ valOut.validity_score <= 10000
        /\ InvalidTotal(valOut.issues) > LoadedCells => valOut.validity_score < 0

(***************************************************************************)
(* Properties of the future_date rule (checked under SpecFiles).           *)
(***************************************************************************)
Dob == Column(file, "date_of_birth")

\* The rows whose date of birth is a date after the current date.
FutureRows == {r \in DOMAIN Dob : Dob[r].k = "date" /\ Dob[r].n > today}

\* The dataset reduced to its date_of_birth column and to the rows in which
\* the date is present and parsable.
RECURSIVE DatedCells(_)
DatedCells(col) ==
    IF col = <<>> THEN <<>>
    ELSE (IF Head(col).k = "date" THEN <<Head(col)>> ELSE <<>>) \o DatedCells(Tail(col))

DatedRowsOnly ==
    [names |-> <<"date_of_birth">>, rows |-> Len(DatedCells(Dob)), cols |-> <<DatedCells(Dob)>>]

\* The issues about date_of_birth, all of them or those of the built-in rules.
RECURSIVE DobIssuesIn(_, _)
DobIssuesIn(issues, builtInOnly) ==
    IF issues = <<>> THEN <<>>
    ELSE (IF /\ Head(issues).field = "date_of_birth"
             /\ builtInOnly => Head(issues).rule \notin CdeRuleNames
          THEN <<Head(issues)>> ELSE <<>>) \o DobIssuesIn(Tail(issues), builtInOnly)

\* The future_date issue counts exactly the rows after the current date.
FutureDateCounted ==
    IF FutureRows = {} THEN IssuesOf("date_of_birth", "future_date") = {}
    ELSE /\ Cardinality(IssuesOf("date_of_birth", "future_date")) = 1
         /\ \A i \in IssuesOf("date_of_birth", "future_date") :
               valOut.issues[i].invalid_count = Cardinality(FutureRows)

\* C20 as stated: the future_date rule counts exactly the rows whose date of
\* birth parses to a date strictly after the current date, and the rows whose
\* date is missing or unparsable raise no issue at all: the issues about the
\* column are those of the dataset without these rows.
C20_DatelessRowsRaiseNothing ==
    (ValidatorReturned /\ HasColumn(file, "date_of_birth")) =>
        /\ FutureDateCounted
        /\ DobIssuesIn(valOut.issues, FALSE) =
              DobIssuesIn(ValidatorIssues(DatedRowsOnly, LoadCdeRules(cdeConfig), today), FALSE)

\* C20, amended: the future_date rule counts exactly the rows whose date of
\* birth parses to a date strictly after the current date; rows with a
\* missing or unparsable date, and dates equal to the current date, are not
\* counted and raise no issue of a built-in rule (the CDE rules configured
\* for the column still count them).
C20_FutureDateRule ==
    (ValidatorReturned /\ HasColumn(file, "date_of_birth")) =>
        /\ FutureDateCounted
        /\ DobIssuesIn(valOut.issues, TRUE) =
              DobIssuesIn(ValidatorIssues(DatedRowsOnly, LoadCdeRules(cdeConfig), today), TRUE)

\* A file with a date after the current date, the current date, a missing
\* and an unparsable date: one row is counted.
C20_Witness ==
    /\ ValidatorReturned
    /\ HasColumn(file, "date_of_birth")
    /\ \E r \in DOMAIN Dob : Dob[r].k = "date" /\ Dob[r].n = today
    /\ \E r \in DOMAIN Dob : Dob[r] = Null
    /\ \E r \in DOMAIN Dob : Dob[r].k = "str"
    /\ Cardinality(FutureRows) = 1
    /\ \E i \in IssuesOf("date_of_birth", "future_date") : valOut.issues[i].invalid_count = 1

(***************************************************************************)
(* Properties of the validator's counts (checked under SpecValidator).     *)
(***************************************************************************)
Severities == {"CRITICAL", "HIGH", "MEDIUM"}

====
